---- MODULE Spec2Model ----
(***************************************************************************)
(* Staged freeze / unfreeze of a pretrained module tree and the optimizer  *)
(* parameter groups built from it                                          *)
(* (modelci/experimental/finetuner/transfer_learning.py).                  *)
(*                                                                         *)
(* A module tree is a parent map over the units 1..k, unit 1 being the     *)
(* network handed to FineTuneModule.  A unit without children is a         *)
(* leaf; a leaf is a plain layer owning a weight and a bias, a BatchNorm   *)
(* layer owning a weight and a bias, or a parameter-less layer.  Units     *)
(* with children own no parameter of their own.                            *)
(* The optimizer is the list of its parameter groups, each a record        *)
(* [params, lr]; learning rates are integers in units of 1e-9.             *)
(***************************************************************************)
EXTENDS Integers, Sequences, FiniteSets, TLC

NumUnits == 4

NumTrainUnits == 3

MaxN == 3

MaxStages == 1

MaxEpoch == 7

net == 1

lr == 10000000

lr_scheduler_gamma_inv == 10

step_size == 7

Milestone1 == 5

Milestone2 == 10

\* Optional[...] arguments: None, or a given value x as Some(x)
None == <<>>

Some(x) == <<x>>

VARIABLES parent, kind, requires_grad, training, param_groups, current_epoch,
          phase, last

vars == <<parent, kind, requires_grad, training, param_groups, current_epoch,
          phase, last>>

----------------------------------------------------------------------------
(* The module tree: torch.nn.Module.children() and .parameters().          *)

\* the units of the tree
Units == DOMAIN parent

Max(a, b) == IF a > b THEN a ELSE b

Min(a, b) == IF a < b THEN a ELSE b

RECURSIVE SortedSeq(_)
SortedSeq(S) ==
    IF S = {} THEN <<>>
    ELSE LET m == CHOOSE x \in S : \A y \in S : x <= y
         IN  <<m>> \o SortedSeq(S \ {m})

\* list(module.children()): the direct children, in declaration order
children(u) == SortedSeq({v \in Units : parent[v] = u})

\* isinstance(module, BN_TYPES)
IsBN(u) == kind[u] = "norm"

\* the parameters a unit owns directly, in registration order
OwnParams(u) ==
    IF kind[u] \in {"plain", "norm"} THEN << <<u, "weight">>, <<u, "bias">> >>
    ELSE <<>>

RECURSIVE ParamSeq(_)
RECURSIVE ParamSeqOver(_)
\* list(module.parameters()): own parameters, then each child's, recursively
ParamSeq(u) == OwnParams(u) \o ParamSeqOver(children(u))

ParamSeqOver(cs) ==
    IF cs = <<>> THEN <<>> ELSE ParamSeq(Head(cs)) \o ParamSeqOver(Tail(cs))

Range(s) == {s[i] : i \in DOMAIN s}

parameters(u) == Range(ParamSeq(u))

RECURSIVE modules(_)
\* module.modules(): the unit and all its descendants
modules(u) == {u} \cup UNION {modules(v) : v \in {w \in Units : parent[w] = u}}

AllParams == parameters(net)

----------------------------------------------------------------------------
(* The utility functions.  A flag state st is a record                     *)
(* [grad : parameter -> BOOLEAN, training : unit -> BOOLEAN].              *)

\* a _make_trainable that unfreezes the whole network
_make_trainable_whole_net(st, module) ==
    [grad     |-> [p \in DOMAIN st.grad |-> TRUE],
     training |-> [v \in Units |-> TRUE]]

\* a _make_trainable that forgets module.train()
_make_trainable_no_train(st, module) ==
    [grad     |-> [p \in DOMAIN st.grad |->
                      IF p \in parameters(module) THEN TRUE ELSE st.grad[p]],
     training |-> st.training]

_make_trainable(st, module) ==
    [grad     |-> [p \in DOMAIN st.grad |->
                      IF p \in parameters(module) THEN TRUE ELSE st.grad[p]],
     training |-> [v \in Units |->
                      IF v \in modules(module) THEN TRUE ELSE st.training[v]]]

\* the leaf branch of _recursive_freeze
FreezeLeaf(st, module, train_bn) ==
    IF ~(IsBN(module) /\ train_bn)
    THEN [grad     |-> [p \in DOMAIN st.grad |->
                           IF p \in parameters(module) THEN FALSE ELSE st.grad[p]],
          training |-> [v \in Units |->
                           IF v \in modules(module) THEN FALSE ELSE st.training[v]]]
    ELSE _make_trainable(st, module)

\* a freeze that does not descend below a unit's children
_recursive_freeze_shallow(st, module, train_bn) ==
    IF children(module) = <<>> THEN FreezeLeaf(st, module, train_bn) ELSE st

RECURSIVE _recursive_freeze(_, _, _)
RECURSIVE FreezeEach(_, _, _)
_recursive_freeze(st, module, train_bn) ==
    IF children(module) = <<>>
    THEN FreezeLeaf(st, module, train_bn)
    ELSE FreezeEach(st, children(module), train_bn)

\* for child in cs: _recursive_freeze(module=child, train_bn=train_bn)
FreezeEach(st, cs, train_bn) ==
    IF cs = <<>> THEN st
    ELSE FreezeEach(_recursive_freeze(st, Head(cs), train_bn), Tail(cs), train_bn)

RECURSIVE TrainEach(_, _)
\* for child in cs: _make_trainable(module=child)
TrainEach(st, cs) ==
    IF cs = <<>> THEN st ELSE TrainEach(_make_trainable(st, Head(cs)), Tail(cs))

\* a slice bound that takes a negative k for 0
SliceIndex_clamp_negative(k, len) == IF k < 0 THEN 0 ELSE Min(k, len)

\* the index a Python slice bound k denotes in a list of length len
SliceIndex(k, len) == IF k < 0 THEN Max(k + len, 0) ELSE Min(k, len)

\* xs[:k]
SliceTo(xs, k) == SubSeq(xs, 1, SliceIndex(k, Len(xs)))

\* xs[k:]
SliceFrom(xs, k) == SubSeq(xs, SliceIndex(k, Len(xs)) + 1, Len(xs))

\* n_max that takes None for 0
n_max_none_is_zero(module, n) == IF n = None THEN 0 ELSE n[1]

\* n_max = len(children) if n is None else int(n)
n_max(module, n) == IF n = None THEN Len(children(module)) ELSE n[1]

freeze(st, module, n, train_bn) ==
    TrainEach(FreezeEach(st, SliceTo(children(module), n_max(module, n)), train_bn),
              SliceFrom(children(module), n_max(module, n)))

\* [p for p in ps if p.requires_grad]
Trainable(st, ps) == SelectSeq(ps, LAMBDA p : st.grad[p])

\* a leaf test that skips the BatchNorm layers when train_bn is false
YieldsFrom_unless_frozen_bn(module, train_bn) == ~(IsBN(module) /\ ~train_bn)

\* not (isinstance(module, BN_TYPES) and train_bn), in filter_params
YieldsFrom(module, train_bn) == ~(IsBN(module) /\ train_bn)

RECURSIVE filter_params(_, _, _)
RECURSIVE FilterEach(_, _, _)
\* the parameters the generator yields, in the order it yields them
filter_params(st, module, train_bn) ==
    IF children(module) = <<>>
    THEN IF YieldsFrom(module, train_bn)
         THEN Trainable(st, ParamSeq(module))
         ELSE <<>>
    ELSE FilterEach(st, children(module), train_bn)

FilterEach(st, cs, train_bn) ==
    IF cs = <<>> THEN <<>>
    ELSE filter_params(st, Head(cs), train_bn) \o FilterEach(st, Tail(cs), train_bn)

\* x / 10.0
Div10(x) == x \div 10

\* a base rate read from the module's lr hyperparameter
params_lr_from_hparam(groups, given_lr) == IF given_lr = None THEN lr ELSE given_lr[1]

\* params_lr = optimizer.param_groups[0]["lr"] if lr is None else float(lr)
params_lr(groups, given_lr) == IF given_lr = None THEN groups[1].lr ELSE given_lr[1]

\* the dict handed to optimizer.add_param_group, read after _make_trainable
NewGroup(st, groups, module, given_lr, train_bn) ==
    [params |-> filter_params(st, module, train_bn),
     lr     |-> Div10(params_lr(groups, given_lr))]

\* optimizer.add_param_group: the optimizer keeps its groups in a list
add_param_group(groups, group) == Append(groups, group)

\* an unfreeze that appends nothing when it collected no parameter
_unfreeze_and_add_param_group_guarded(st, groups, module, given_lr, train_bn) ==
    LET st1 == _make_trainable(st, module)
        g   == NewGroup(st1, groups, module, given_lr, train_bn)
    IN  [flags  |-> st1,
         groups |-> IF g.params = <<>> THEN groups ELSE add_param_group(groups, g)]

\* the flags and the groups _unfreeze_and_add_param_group leaves behind
_unfreeze_and_add_param_group(st, groups, module, given_lr, train_bn) ==
    LET st1 == _make_trainable(st, module)
    IN  [flags  |-> st1,
         groups |-> add_param_group(groups,
                        NewGroup(st1, groups, module, given_lr, train_bn))]

\* optim.Adam(filter(lambda p: p.requires_grad, self.parameters()), lr=self.lr)
configure_optimizers(st) == <<[params |-> Trainable(st, ParamSeq(net)), lr |-> lr]>>

\* StepLR.step() as epoch e ends: every step_size epochs each rate is scaled by gamma
StepLR(groups, e) ==
    IF e % step_size = 0
    THEN [i \in DOMAIN groups |->
             [groups[i] EXCEPT !.lr = groups[i].lr \div lr_scheduler_gamma_inv]]
    ELSE groups

----------------------------------------------------------------------------
(* State.                                                                  *)

Flags == [grad |-> requires_grad, training |-> training]

NoCall == [op |-> "none"]

\* the trees of k units: unit 1 is the root, a parent precedes its children
ParentMaps(k) == {f \in [1..k -> 0..k] :
                     /\ f[net] = 0
                     /\ \A u \in 2..k : f[u] >= 1 /\ f[u] < u}

\* the trees of at most k units
Trees(k) == UNION {ParentMaps(j) : j \in 1..k}

IsLeafOf(f, u) == \A v \in DOMAIN f : f[v] # u

KindMaps(f) == {k \in [DOMAIN f -> {"composite", "plain", "norm", "empty"}] :
                   \A u \in DOMAIN f : (k[u] = "composite") <=> ~IsLeafOf(f, u)}

\* a freshly constructed network of at most k units: every parameter requires a
\* gradient, every unit is in training mode
Constructed(k) ==
    /\ parent \in Trees(k)
    /\ kind \in KindMaps(parent)
    /\ requires_grad = [p \in AllParams |-> TRUE]
    /\ training = [u \in Units |-> TRUE]
    /\ param_groups = <<>>
    /\ current_epoch = 0
    /\ phase = "setup"
    /\ last = NoCall

InitFreeze == Constructed(NumUnits)

Init == Constructed(NumTrainUnits)

NRange == {None} \cup {Some(k) : k \in (0 - MaxN) .. MaxN}

\* the learning rates a caller passes: None, 1e-4
LrRange == {None, Some(100000)}

\* the call in progress: its arguments and the state it started from.  No
\* utility function has a raise statement: every call runs to its end.
Called(op, module, n, given_lr, train_bn) ==
    [op |-> op, module |-> module, n |-> n, lr |-> given_lr, train_bn |-> train_bn,
     pre_grad |-> requires_grad, pre_training |-> training,
     pre_groups |-> param_groups]

SetFlags(st) ==
    /\ requires_grad' = st.grad
    /\ training' = st.training

Freeze(module, n, train_bn) ==
    /\ phase = "setup"
    /\ last = NoCall
    /\ SetFlags(freeze(Flags, module, n, train_bn))
    /\ last' = Called("freeze", module, n, None, train_bn)
    /\ UNCHANGED <<parent, kind, param_groups, current_epoch, phase>>

RecursiveFreeze(module, train_bn) ==
    /\ phase = "setup"
    /\ last = NoCall
    /\ SetFlags(_recursive_freeze(Flags, module, train_bn))
    /\ last' = Called("_recursive_freeze", module, None, None, train_bn)
    /\ UNCHANGED <<parent, kind, param_groups, current_epoch, phase>>

MakeTrainable(module) ==
    /\ phase = "setup"
    /\ last = NoCall
    /\ SetFlags(_make_trainable(Flags, module))
    /\ last' = Called("_make_trainable", module, None, None, FALSE)
    /\ UNCHANGED <<parent, kind, param_groups, current_epoch, phase>>

\* the call returns to its caller
Return ==
    /\ last # NoCall
    /\ last' = NoCall
    /\ UNCHANGED <<parent, kind, requires_grad, training, param_groups,
                   current_epoch, phase>>

NextFreeze ==
    \/ \E module \in Units, n \in NRange, train_bn \in BOOLEAN :
          Freeze(module, n, train_bn)
    \/ \E module \in Units, train_bn \in BOOLEAN : RecursiveFreeze(module, train_bn)
    \/ \E module \in Units : MakeTrainable(module)
    \/ Return

SpecFreeze == InitFreeze /\ [][NextFreeze]_vars

\* FineTuneModule.configure_optimizers, called once by the trainer before epoch 0
ConfigureOptimizers ==
    /\ phase = "setup"
    /\ last = NoCall
    /\ param_groups' = configure_optimizers(Flags)
    /\ phase' = "train"
    /\ UNCHANGED <<parent, kind, requires_grad, training, current_epoch, last>>

UnfreezeAndAddParamGroup(module, given_lr, train_bn) ==
    /\ phase = "train"
    /\ last = NoCall
    /\ Len(param_groups) <= MaxStages
    /\ LET r == _unfreeze_and_add_param_group(Flags, param_groups, module,
                                              given_lr, train_bn)
       IN  /\ SetFlags(r.flags)
           /\ param_groups' = r.groups
    /\ last' = Called("_unfreeze_and_add_param_group", module, None, given_lr, train_bn)
    /\ UNCHANGED <<parent, kind, current_epoch, phase>>

\* an epoch ends: training_epoch_end only logs, the trainer steps the StepLR
\* scheduler and moves to the next epoch
TrainingEpochEnd ==
    /\ phase = "train"
    /\ last = NoCall
    /\ current_epoch < MaxEpoch
    /\ current_epoch' = current_epoch + 1
    /\ param_groups' = StepLR(param_groups, current_epoch + 1)
    /\ UNCHANGED <<parent, kind, requires_grad, training, phase, last>>

\* the network is frozen once, before the optimizer is configured
FreezeNet ==
    /\ last = NoCall
    /\ requires_grad = [p \in AllParams |-> TRUE]
    /\ \E n \in NRange, train_bn \in BOOLEAN : Freeze(net, n, train_bn)

Next ==
    \/ FreezeNet
    \/ Return
    \/ ConfigureOptimizers
    \/ \E module \in Units, given_lr \in LrRange, train_bn \in BOOLEAN :
          UnfreezeAndAddParamGroup(module, given_lr, train_bn)
    \/ TrainingEpochEnd

Spec == Init /\ [][Next]_vars

NextEpochs ==
    \/ FreezeNet
    \/ Return
    \/ ConfigureOptimizers
    \/ TrainingEpochEnd

SpecEpochs == Init /\ [][NextEpochs]_vars

----------------------------------------------------------------------------
(* Properties.                                                             *)

LeavesUnder(u) == {v \in modules(u) : children(v) = <<>>}

\* what the Freeze Controller leaves on every leaf below unit u
LeafFrozen(v, train_bn) ==
    \A p \in Range(OwnParams(v)) :
        ~(IsBN(v) /\ train_bn) => ~requires_grad[p]

\* children[0:k] frozen apart from the kept BatchNorm leaves, children[k:] trainable
PrefixFrozen(module, k, train_bn) ==
    LET cs == children(module)
    IN  /\ \A i \in 1..k : \A v \in LeavesUnder(cs[i]) : LeafFrozen(v, train_bn)
        /\ \A i \in (k + 1)..Len(cs) : \A p \in parameters(cs[i]) : requires_grad[p]

FlagsUnchanged ==
    /\ requires_grad = last.pre_grad
    /\ training = last.pre_training

IsFreezeCall == last.op = "freeze"

IsUnfreezeCall == last.op = "_unfreeze_and_add_param_group"

\* C1: after freeze(T, n, keep_norm_trainable) with a non-negative n, n above
\* the number of children counting as that number, every leaf parameter under
\* children[0:n] is frozen, except those of normalization leaves when
\* keep_norm_trainable is true, and every parameter under children[n:] is
\* trainable, whatever the flags were before.
C1_FreezePrefix ==
    (IsFreezeCall /\ last.n # None /\ last.n[1] >= 0) =>
        PrefixFrozen(last.module,
                     Min(last.n[1], Len(children(last.module))), last.train_bn)

\* a freeze of the first child only: it froze a parameter that was trainable,
\* kept a BatchNorm leaf trainable and made a frozen later child trainable
C1_Witness ==
    /\ IsFreezeCall
    /\ last.n = Some(1)
    /\ last.train_bn
    /\ Len(children(last.module)) >= 2
    /\ \E p \in parameters(children(last.module)[1]) :
          last.pre_grad[p] /\ ~requires_grad[p]
    /\ \E p \in parameters(children(last.module)[2]) :
          ~last.pre_grad[p] /\ requires_grad[p]

\* a freeze whose n exceeds the number of children froze every one of them
C1_WitnessClamp ==
    /\ IsFreezeCall
    /\ last.n # None
    /\ last.n[1] > Len(children(last.module))
    /\ \E p \in parameters(last.module) : last.pre_grad[p] /\ ~requires_grad[p]

\* C9: after freeze_subtree(unit, keep_norm_trainable) every leaf of unit's
\* subtree that is a normalization unit, with keep_norm_trainable true, has all
\* its parameters trainable and is in training mode; every other leaf has all
\* its parameters frozen and is in evaluation mode.
C9_FreezeSubtreeLeaves ==
    (last.op = "_recursive_freeze") =>
        \A v \in LeavesUnder(last.module) :
            IF IsBN(v) /\ last.train_bn
            THEN /\ \A p \in Range(OwnParams(v)) : requires_grad[p]
                 /\ training[v]
            ELSE /\ \A p \in Range(OwnParams(v)) : ~requires_grad[p]
                 /\ ~training[v]

\* freeze_subtree on a composite turned a frozen BatchNorm leaf in evaluation
\* mode back on and froze a trainable plain leaf
C9_Witness ==
    /\ last.op = "_recursive_freeze"
    /\ last.train_bn
    /\ children(last.module) # <<>>
    /\ \E v \in LeavesUnder(last.module) :
          /\ IsBN(v)
          /\ ~last.pre_training[v]
          /\ \E p \in Range(OwnParams(v)) : ~last.pre_grad[p] /\ requires_grad[p]
    /\ \E v \in LeavesUnder(last.module) :
          /\ ~IsBN(v)
          /\ last.pre_training[v]
          /\ \E p \in Range(OwnParams(v)) : last.pre_grad[p] /\ ~requires_grad[p]

\* C8 as stated: after freeze(unit, None, false) every parameter under unit is
\* frozen, also when unit is itself a leaf owning parameters.
C8_FreezeAllAnyUnit ==
    (IsFreezeCall /\ last.n = None /\ ~last.train_bn) =>
        \A p \in parameters(last.module) : ~requires_grad[p]

\* C8 amended: freeze(unit, None, false) freezes every parameter of every leaf
\* below a unit that has children; on a unit that is itself a leaf it changes
\* no flag and no mode.
C8_FreezeAllBelow ==
    (IsFreezeCall /\ last.n = None /\ ~last.train_bn) =>
        IF children(last.module) = <<>>
        THEN FlagsUnchanged
        ELSE \A v \in LeavesUnder(last.module) :
                 \A p \in Range(OwnParams(v)) : ~requires_grad[p]

\* freeze(leaf, None, false) on a leaf owning trainable parameters left them
\* trainable
C8_Witness ==
    /\ IsFreezeCall
    /\ last.n = None
    /\ ~last.train_bn
    /\ children(last.module) = <<>>
    /\ \E p \in parameters(last.module) : requires_grad[p]

\* C7 as stated: freeze with a negative n fails with ConfigurationError, so
\* that it changes no trainable flag and no mode.
C7_NegativeNRejected ==
    (IsFreezeCall /\ last.n # None /\ last.n[1] < 0) => FlagsUnchanged

\* C7 amended: freeze with a negative n does not fail; n counts from the end
\* of the children, so the first max(0, len(children) + n) children are frozen,
\* apart from the kept normalization leaves, and the others are made trainable.
C7_NegativeNFromEnd ==
    (IsFreezeCall /\ last.n # None /\ last.n[1] < 0) =>
        PrefixFrozen(last.module,
                     Max(Len(children(last.module)) + last.n[1], 0),
                     last.train_bn)

\* freeze(unit, -1, ..) froze a trainable parameter of the first child and
\* left the last child trainable
C7_Witness ==
    /\ IsFreezeCall
    /\ last.n = Some(0 - 1)
    /\ Len(children(last.module)) >= 2
    /\ \E p \in parameters(children(last.module)[1]) :
          last.pre_grad[p] /\ ~requires_grad[p]
    /\ \E p \in parameters(children(last.module)[Len(children(last.module))]) :
          requires_grad[p]

\* the group the call in progress appended
NewestGroup == param_groups[Len(param_groups)]

\* the rate the appended group is derived from
BaseRate == IF last.lr = None THEN last.pre_groups[1].lr ELSE last.lr[1]

\* C4: the group unfreeze_and_add_group appends has rate lr / 10 when lr is
\* given and (rate of group 0 at the moment of the call) / 10 when lr is None,
\* and the call changes the rate of no group that existed before it.
C4_RateCascade ==
    IsUnfreezeCall =>
        /\ NewestGroup.lr * 10 = BaseRate
        /\ \A i \in DOMAIN last.pre_groups :
              param_groups[i].lr = last.pre_groups[i].lr

\* a call without lr, made after the scheduler had lowered the rate of group 0
C4_Witness ==
    /\ IsUnfreezeCall
    /\ last.lr = None
    /\ last.pre_groups[1].lr # lr
    /\ Len(param_groups) = Len(last.pre_groups) + 1

\* the parameters of the normalization leaves below unit u
NormParams(u) == {p \in parameters(u) : IsBN(p[1])}

TrainableUnder(u) == {p \in parameters(u) : requires_grad[p]}

NothingToCollect ==
    \A v \in LeavesUnder(last.module) :
        OwnParams(v) = <<>> \/ (IsBN(v) /\ last.train_bn)

\* C6 as stated: unfreeze_and_add_group fails with EmptyGroupError when the
\* set it collects is empty, and then appends no group.
C6_EmptyGroupRejected ==
    (IsUnfreezeCall /\ NothingToCollect) => param_groups = last.pre_groups

\* C6 amended: when the collected set is empty unfreeze_and_add_group does
\* not fail and appends a group without parameters, at the derived rate.
C6_EmptyGroupAppended ==
    (IsUnfreezeCall /\ NothingToCollect) =>
        /\ Len(param_groups) = Len(last.pre_groups) + 1
        /\ NewestGroup.params = <<>>
        /\ NewestGroup.lr * 10 = BaseRate

\* a call on a subtree whose only parameters are those of normalization leaves
C6_Witness ==
    /\ IsUnfreezeCall
    /\ NothingToCollect
    /\ NormParams(last.module) # {}
    /\ Len(param_groups) = Len(last.pre_groups) + 1

\* a call on a subtree without parameters
C6_WitnessNoParams ==
    /\ IsUnfreezeCall
    /\ parameters(last.module) = {}
    /\ NewestGroup.params = <<>>

\* C10: a call of unfreeze_and_add_group appends one group at the end of the
\* list and leaves the groups before it as they were; it changes no flag and
\* no mode outside unit's subtree and sets no trainable flag to false.
C10_UnfreezeFrame ==
    IsUnfreezeCall =>
        /\ Len(param_groups) = Len(last.pre_groups) + 1
        /\ SubSeq(param_groups, 1, Len(last.pre_groups)) = last.pre_groups
        /\ \A p \in AllParams \ parameters(last.module) :
              requires_grad[p] = last.pre_grad[p]
        /\ \A u \in Units \ modules(last.module) :
              training[u] = last.pre_training[u]
        /\ \A p \in AllParams : last.pre_grad[p] => requires_grad[p]

\* a call that unfroze a parameter of its subtree while a parameter outside
\* it stayed frozen and its leaf stayed in evaluation mode
C10_Witness ==
    /\ IsUnfreezeCall
    /\ \E p \in parameters(last.module) : ~last.pre_grad[p] /\ requires_grad[p]
    /\ \E p \in AllParams \ parameters(last.module) :
          ~requires_grad[p] /\ ~training[p[1]]

GroupsHolding(p) == {i \in DOMAIN param_groups : p \in Range(param_groups[i].params)}

\* C2: once the baseline group is built and the unfreeze_and_add_group calls
\* made so far have completed, every trainable parameter is a member of
\* exactly one optimizer group.
C2_TrainableInOneGroup ==
    (phase = "train" /\ last = NoCall) =>
        \A p \in AllParams : requires_grad[p] => Cardinality(GroupsHolding(p)) = 1

\* the part of C2 that forbids a trainable parameter outside every group
C2_NoOrphan ==
    (phase = "train" /\ last = NoCall) =>
        \A p \in AllParams : requires_grad[p] => GroupsHolding(p) # {}

\* the stages the module documents: unfreezing is due as epochs 5 and 10 begin
Milestones == {Milestone1, Milestone2}

\* C3: each threshold fires once, the fired thresholds are those not above the
\* latest epoch that ended, and the optimizer holds one group per fired
\* threshold beside the baseline group.
C3_GroupPerFiredThreshold ==
    (phase = "train" /\ last = NoCall) =>
        Len(param_groups) =
            1 + Cardinality({m \in Milestones : m <= current_epoch - 1})

====
